---- MODULE Spec2Model ----
(***************************************************************************)
(* Model of the retry / circuit-breaker core (src/src/core/retry.py) and   *)
(* of the session table of the browser manager                             *)
(* (src/src/core/browser_manager.py).                                      *)
(*                                                                         *)
(* Time is a discrete clock `now` (seconds); datetime.now() reads it.      *)
(* The wrapped function of a breaker or of a retry loop is an external     *)
(* callback: a call is split at the callback boundary (entry of call(),    *)
(* return of the wrapped function) so that time may pass while it runs.    *)
(***************************************************************************)
EXTENDS Integers, Sequences, FiniteSets, TLC

VARIABLES
    \* the circuit breaker, the position of a call through it, what the last
    \* step of a call did, and the clock
    cb, cb_pc, cb_event, now,
    \* ghosts of the breaker: failed calls since the last successful one,
    \* successful calls since HALF_OPEN was entered
    consec_failures, half_open_successes,
    \* one call of a function decorated with retry_with_backoff: its
    \* RetryConfig, whether a circuit breaker is named, the position in
    \* _execute_with_retry, the loop variable, RetryStats, delay_before, what
    \* the call returned or raised,
    r_config, r_use_cb, r_pc, r_attempt, r_stats, r_delay, r_result,
    \* ghosts of the call: invocations of the wrapped function, and the
    \* outcome of the latest attempt
    r_invocations, r_last,
    \* one evaluation of calculate_delay: its config, its attempt, the draw
    \* of random.random(), its position and the delay it returned
    d_config, d_attempt, d_rnd, d_pc, d_delay,
    \* one BrowserManager: its settings, its _sessions dictionary, the wall
    \* clock in hours, the number of browsers launched so far, the browsers
    \* launched and not closed, and the outcome of its latest operation
    settings, sessions, bm_clock, launched, live_browsers, bm_result,
    \* one use of the context manager `with manager.browser_session(...)`:
    \* its position, the id of the session it yielded, how its block ended
    \* and what get_session_stats returned when the block was entered
    cm_pc, cm_session, cm_exit, cm_stats,
    \* the module global _browser_manager of browser_manager.py and the latest
    \* call of get_browser_manager
    global_manager, gbm_call,
    \* the module global _logging_manager of logger.py (its _configured flag,
    \* the level and the handlers of the root logger), the messages each log
    \* file holds, and the latest call of setup_logging
    log_configured, log_level, log_handlers, log_files, log_call,
    \* one construction of Settings: the values its sources supply and what
    \* the constructor returned or raised
    st_input, st_result,
    \* one Inventory and the outcome of the latest call on it
    inventory, inv_result,
    \* one User and the outcome of the latest call on it
    user, user_result,
    \* the launch_browser_async coroutines in flight on the manager
    tasks

cbvars == <<cb, cb_pc, cb_event, consec_failures, half_open_successes>>
rvars == <<r_config, r_use_cb, r_pc, r_attempt, r_stats, r_delay, r_result,
           r_invocations, r_last>>
dvars == <<d_config, d_attempt, d_rnd, d_pc, d_delay>>
bmvars == <<settings, sessions, bm_clock, launched, live_browsers, bm_result>>
cmvars == <<cm_pc, cm_session, cm_exit, cm_stats>>
gvars == <<global_manager, gbm_call>>
logvars == <<log_configured, log_level, log_handlers, log_files, log_call>>
setvars == <<st_input, st_result>>
invvars == <<inventory, inv_result>>
uservars == <<user, user_result>>
asyncvars == <<tasks>>
extvars == <<cmvars, gvars, logvars, setvars, invvars, uservars, asyncvars>>
\* extvars without one of its groups
ext_but_cm == <<gvars, logvars, setvars, invvars, uservars, asyncvars>>
ext_but_g == <<cmvars, logvars, setvars, invvars, uservars, asyncvars>>
ext_but_log == <<cmvars, gvars, setvars, invvars, uservars, asyncvars>>
ext_but_set == <<cmvars, gvars, logvars, invvars, uservars, asyncvars>>
ext_but_inv == <<cmvars, gvars, logvars, setvars, uservars, asyncvars>>
ext_but_user == <<cmvars, gvars, logvars, setvars, invvars, asyncvars>>
ext_but_async == <<cmvars, gvars, logvars, setvars, invvars, uservars>>
vars == <<cbvars, now, rvars, dvars, bmvars, extvars>>

\* Python's None for an Optional[datetime]: a value outside the clock's range.
None == -1

(***************************************************************************)
(* Bounds of the model.                                                    *)
(***************************************************************************)
MaxTime == 3
MaxFailureThreshold == 2
MaxRecoveryTimeout == 2
MaxSuccessThreshold == 2
MaxAttempts == 3
MaxDelayAttempt == 5
MaxBrowsers == 2
MaxLaunches == 3
MaxClock == 2
MaxChildren == 2
MaxMessages == 2
MaxStock == 3
MaxTasks == 2

(***************************************************************************)
(* CircuitBreaker                                                          *)
(***************************************************************************)

\* CircuitBreaker.__init__: counters at zero, no failure seen, CLOSED.
CircuitBreaker(ft, rt, st) ==
    [failure_threshold |-> ft, recovery_timeout |-> rt, success_threshold |-> st,
     failure_count |-> 0, success_count |-> 0,
     last_failure_time |-> None, state |-> "CLOSED"]

\* Faulty variant: the cooldown is never consulted.
should_attempt_reset_no_cooldown(b, t) == TRUE

\* Faulty variant: the cooldown must be strictly exceeded.
should_attempt_reset_strict(b, t) ==
    IF b.last_failure_time = None
    THEN TRUE
    ELSE t - b.last_failure_time > b.recovery_timeout

\* CircuitBreaker._should_attempt_reset, evaluated at clock value t.
should_attempt_reset(b, t) ==
    IF b.last_failure_time = None
    THEN TRUE
    ELSE t - b.last_failure_time >= b.recovery_timeout

\* Faulty variant: the first success in HALF_OPEN closes the breaker.
on_success_first_closes(b) ==
    LET b1 == [b EXCEPT !.failure_count = 0] IN
    IF b1.state = "HALF_OPEN"
    THEN [b1 EXCEPT !.state = "CLOSED", !.success_count = 0]
    ELSE b1

\* CircuitBreaker._on_success
on_success(b) ==
    LET b1 == [b EXCEPT !.failure_count = 0] IN
    IF b1.state = "HALF_OPEN"
    THEN LET b2 == [b1 EXCEPT !.success_count = @ + 1] IN
         IF b2.success_count >= b2.success_threshold
         THEN [b2 EXCEPT !.state = "CLOSED", !.success_count = 0]
         ELSE b2
    ELSE b1

\* Faulty variant: the threshold must be strictly exceeded.
on_failure_strict(b, t) ==
    LET b1 == [b EXCEPT !.failure_count = @ + 1,
                        !.success_count = 0,
                        !.last_failure_time = t] IN
    IF b1.state = "CLOSED" /\ b1.failure_count > b1.failure_threshold
    THEN [b1 EXCEPT !.state = "OPEN"]
    ELSE IF b1.state = "HALF_OPEN"
         THEN [b1 EXCEPT !.state = "OPEN"]
         ELSE b1

\* CircuitBreaker._on_failure, evaluated at clock value t.
on_failure(b, t) ==
    LET b1 == [b EXCEPT !.failure_count = @ + 1,
                        !.success_count = 0,
                        !.last_failure_time = t] IN
    IF b1.state = "CLOSED" /\ b1.failure_count >= b1.failure_threshold
    THEN [b1 EXCEPT !.state = "OPEN"]
    ELSE IF b1.state = "HALF_OPEN"
         THEN [b1 EXCEPT !.state = "OPEN"]
         ELSE b1

\* First half of CircuitBreaker.call (the OPEN gate): the breaker after the
\* gate and whether the call raised "Circuit breaker is OPEN" before
\* reaching the wrapped function.
call_gate(b, t) ==
    IF b.state = "OPEN"
    THEN IF should_attempt_reset(b, t)
         THEN [breaker |-> [b EXCEPT !.state = "HALF_OPEN"], rejected |-> FALSE]
         ELSE [breaker |-> b, rejected |-> TRUE]
    ELSE [breaker |-> b, rejected |-> FALSE]

\* Second half of CircuitBreaker.call: the wrapped function has returned
\* ("ok"), raised an Exception ("exception"), or raised a BaseException that
\* `except Exception` does not catch ("base_exception").
call_return(b, outcome, t) ==
    CASE outcome = "ok" -> on_success(b)
      [] outcome = "exception" -> on_failure(b, t)
      [] OTHER -> b

FuncOutcomes == {"ok", "exception", "base_exception"}

\* Ghost: the number of successful calls since HALF_OPEN was entered; it is
\* reset when the gate moves the breaker to HALF_OPEN and counts only there.
GhostHalfOpenAfterGate(b, g, h) ==
    IF b.state = "OPEN" /\ g.breaker.state = "HALF_OPEN" THEN 0 ELSE h

\* The effect of the gate of cb.call on the breaker and its ghosts.
CbGateStep ==
    LET g == call_gate(cb, now) IN
    /\ cb' = g.breaker
    /\ cb_pc' = IF g.rejected THEN "idle" ELSE "in_func"
    /\ cb_event' = IF g.rejected THEN "rejected" ELSE "invoked"
    /\ half_open_successes' = GhostHalfOpenAfterGate(cb, g, half_open_successes)
    /\ UNCHANGED consec_failures

\* The effect on the breaker and its ghosts of the wrapped function ending
\* with the given outcome.
CbReturnStep(outcome) ==
    /\ cb' = call_return(cb, outcome, now)
    /\ cb_pc' = "idle"
    /\ cb_event' = CASE outcome = "ok" -> "success"
                     [] outcome = "exception" -> "failure"
                     [] OTHER -> "base_exception"
    /\ consec_failures' = CASE outcome = "ok" -> 0
                            [] outcome = "exception" -> consec_failures + 1
                            [] OTHER -> consec_failures
    /\ half_open_successes' = IF outcome = "ok" /\ cb.state = "HALF_OPEN"
                              THEN half_open_successes + 1
                              ELSE half_open_successes

\* A caller enters cb.call(func).
CbCall ==
    /\ cb_pc = "idle"
    /\ CbGateStep
    /\ UNCHANGED <<now, rvars, dvars, bmvars, extvars>>

\* The wrapped function finishes and cb.call handles its outcome.
CbFuncReturn ==
    /\ cb_pc = "in_func"
    /\ \E outcome \in FuncOutcomes : CbReturnStep(outcome)
    /\ UNCHANGED <<now, rvars, dvars, bmvars, extvars>>

\* The clock advances by one second.
Tick ==
    /\ now < MaxTime
    /\ now' = now + 1
    /\ UNCHANGED <<cbvars, rvars, dvars, bmvars, extvars>>

(***************************************************************************)
(* Exceptions.  An exception is its class plus, for AutomationException    *)
(* and its subclasses, the severity and category tags.                     *)
(***************************************************************************)

\* The classes of which an instance of class t is an instance (its MRO).
Superclasses(t) ==
    CASE t = "BrowserException" ->
            {"BrowserException", "AutomationException", "Exception", "BaseException"}
      [] t = "BrowserLaunchException" ->
            {"BrowserLaunchException", "BrowserException", "AutomationException",
             "Exception", "BaseException"}
      [] t = "AutomationException" ->
            {"AutomationException", "Exception", "BaseException"}
      [] t \in {"ConnectionError", "TimeoutError"} ->
            {t, "OSError", "Exception", "BaseException"}
      [] t \in {"KeyboardInterrupt", "SystemExit"} -> {t, "BaseException"}
      [] OTHER -> {t, "Exception", "BaseException"}

isinstance(e, cls) == cls \in Superclasses(e.type)

Exc(t) == [type |-> t, severity |-> "", category |-> ""]
AutomationExc(t, sev, cat) == [type |-> t, severity |-> sev, category |-> cat]

\* Optional[Exception] = None
NoException == Exc("NoneType")
\* raise Exception("Circuit breaker is OPEN - service unavailable")
CircuitOpenError == Exc("Exception")
\* `raise None`: "exceptions must derive from BaseException"
RaiseNoneError == Exc("TypeError")

\* What the wrapped function may raise.
RaisedExceptions ==
    { AutomationExc("AutomationException", "low", "network"),
      AutomationExc("AutomationException", "high", "network"),
      AutomationExc("AutomationException", "low", "data"),
      AutomationExc("BrowserException", "medium", "browser"),
      Exc("ConnectionError"), Exc("ValueError"), Exc("MemoryError"),
      Exc("KeyboardInterrupt") }

\* What the wrapped function may return.
ReturnValues == {"v1", "v2"}

(***************************************************************************)
(* RetryConfig.  Delays are in milliseconds, backoff_multiplier in tenths  *)
(* (20 is 2.0), jitter_range in percent ((80, 120) is (0.8, 1.2)).         *)
(***************************************************************************)

\* RetryConfig(): the dataclass defaults.
RetryConfig ==
    [max_attempts |-> 3, base_delay |-> 1000, max_delay |-> 60000,
     strategy |-> "exponential_jitter", backoff_multiplier |-> 20,
     jitter_range |-> <<80, 120>>,
     retryable_exceptions |-> {"AutomationException", "ConnectionError", "TimeoutError"},
     non_retryable_exceptions |-> {"KeyboardInterrupt", "SystemExit", "MemoryError"},
     retry_on_severity |-> {"low", "medium"},
     retry_on_categories |-> {"network", "timeout", "browser"}]

create_network_retry_config ==
    [RetryConfig EXCEPT !.max_attempts = 5, !.base_delay = 1000, !.max_delay = 30000,
                        !.strategy = "exponential_jitter", !.backoff_multiplier = 20,
                        !.retry_on_categories = {"network", "timeout", "infrastructure"}]

create_browser_retry_config ==
    [RetryConfig EXCEPT !.max_attempts = 3, !.base_delay = 2000, !.max_delay = 10000,
                        !.strategy = "linear",
                        !.retry_on_categories = {"browser", "element", "timeout"}]

create_api_retry_config ==
    [RetryConfig EXCEPT !.max_attempts = 4, !.base_delay = 500, !.max_delay = 20000,
                        !.strategy = "exponential_jitter", !.backoff_multiplier = 15,
                        !.retry_on_categories = {"network", "timeout", "authentication"}]

\* A caller's configuration that retries every Exception except two classes:
\* RetryConfig(strategy=FIXED, retryable_exceptions={Exception, ConnectionError},
\*             non_retryable_exceptions={ConnectionError, MemoryError},
\*             retry_on_severity={LOW, MEDIUM, HIGH}).
BroadRetryConfig ==
    [RetryConfig EXCEPT !.strategy = "fixed",
                        !.retryable_exceptions = {"Exception", "ConnectionError"},
                        !.non_retryable_exceptions = {"ConnectionError", "MemoryError"},
                        !.retry_on_severity = {"low", "medium", "high"}]

RetryConfigs ==
    {RetryConfig, create_network_retry_config, create_browser_retry_config,
     create_api_retry_config, BroadRetryConfig}

(***************************************************************************)
(* calculate_delay                                                         *)
(***************************************************************************)

RECURSIVE Pow(_, _)
Pow(b, e) == IF e <= 0 THEN 1 ELSE b * Pow(b, e - 1)

Min(a, b) == IF a <= b THEN a ELSE b

\* The values random.random() takes, in percent.
RandomDraws == {0, 50, 100}

\* random.uniform(a, b) = a + (b - a) * random.random()
uniform(a, b, rnd) == a + ((b - a) * rnd) \div 100

\* config.base_delay * (config.backoff_multiplier ** (attempt - 2))
exponential_delay(attempt, config) ==
    (config.base_delay * Pow(config.backoff_multiplier, attempt - 2))
        \div Pow(10, attempt - 2)

\* Faulty variant: the linear and the exponential delay count one attempt
\* more.
uncapped_delay_one_more(attempt, config, rnd) ==
    CASE config.strategy = "fixed" -> config.base_delay
      [] config.strategy = "linear" -> config.base_delay * attempt
      [] config.strategy = "exponential" -> exponential_delay(attempt + 1, config)
      [] config.strategy = "exponential_jitter" ->
            (exponential_delay(attempt, config)
               * uniform(config.jitter_range[1], config.jitter_range[2], rnd)) \div 100
      [] config.strategy = "random" -> uniform(config.base_delay, config.max_delay, rnd)
      [] OTHER -> config.base_delay

\* The delay before the cap is applied.
uncapped_delay(attempt, config, rnd) ==
    CASE config.strategy = "fixed" -> config.base_delay
      [] config.strategy = "linear" -> config.base_delay * (attempt - 1)
      [] config.strategy = "exponential" -> exponential_delay(attempt, config)
      [] config.strategy = "exponential_jitter" ->
            (exponential_delay(attempt, config)
               * uniform(config.jitter_range[1], config.jitter_range[2], rnd)) \div 100
      [] config.strategy = "random" -> uniform(config.base_delay, config.max_delay, rnd)
      [] OTHER -> config.base_delay

\* Faulty variant: the cap is forgotten.
calculate_delay_uncapped(attempt, config, rnd) ==
    IF attempt <= 1 THEN 0 ELSE uncapped_delay(attempt, config, rnd)

\* calculate_delay(attempt, config), rnd being the draw of random.random().
calculate_delay(attempt, config, rnd) ==
    IF attempt <= 1
    THEN 0
    ELSE Min(uncapped_delay(attempt, config, rnd), config.max_delay)

\* The values of the RetryStrategy field: the five members of
\* retry.RetryStrategy and a string equal to none of them, which takes the
\* else branch.
Strategies ==
    {"fixed", "linear", "exponential", "exponential_jitter", "random", "fibonacci"}

\* The delay configurations calculate_delay is evaluated on, base_delay
\* above max_delay included.
DelayConfigs ==
    { [RetryConfig EXCEPT !.strategy = st, !.base_delay = bd, !.max_delay = md,
                          !.backoff_multiplier = bm, !.jitter_range = jr] :
        st \in Strategies, bd \in {0, 500, 1000, 2000}, md \in {0, 1000, 10000},
        bm \in {10, 15, 20}, jr \in {<<80, 120>>, <<50, 300>>} }

\* calculate_delay(d_attempt, d_config) is evaluated.
CalculateDelay ==
    /\ d_pc = "ready"
    /\ d_delay' = calculate_delay(d_attempt, d_config, d_rnd)
    /\ d_pc' = "done"
    /\ UNCHANGED <<cbvars, now, rvars, d_config, d_attempt, d_rnd, bmvars, extvars>>

\* The delay the retry loop waits before attempt `attempt` (attempts are
\* counted from 1).
delay_before(attempt, config, rnd) ==
    IF attempt > 1 THEN calculate_delay(attempt, config, rnd) ELSE 0

\* The retry loop computes delay_before for attempt d_attempt.
DelayBefore ==
    /\ d_pc = "ready"
    /\ d_attempt >= 1
    /\ d_delay' = delay_before(d_attempt, d_config, d_rnd)
    /\ d_pc' = "waited"
    /\ UNCHANGED <<cbvars, now, rvars, d_config, d_attempt, d_rnd, bmvars, extvars>>

(***************************************************************************)
(* should_retry                                                            *)
(***************************************************************************)

\* Faulty variant: the category of an AutomationException is not consulted.
should_retry_ignores_category(exception, attempt, config) ==
    IF attempt >= config.max_attempts THEN FALSE
    ELSE IF \E exc_type \in config.non_retryable_exceptions :
               isinstance(exception, exc_type) THEN FALSE
    ELSE IF /\ isinstance(exception, "AutomationException")
            /\ exception.severity \notin config.retry_on_severity THEN FALSE
    ELSE \E exc_type \in config.retryable_exceptions : isinstance(exception, exc_type)

\* Faulty variant: the retryable classes are consulted before the
\* non-retryable ones.
should_retry_retryable_first(exception, attempt, config) ==
    IF attempt >= config.max_attempts THEN FALSE
    ELSE IF /\ isinstance(exception, "AutomationException")
            /\ \/ exception.severity \notin config.retry_on_severity
               \/ exception.category \notin config.retry_on_categories THEN FALSE
    ELSE IF \E exc_type \in config.retryable_exceptions :
               isinstance(exception, exc_type) THEN TRUE
    ELSE FALSE

\* should_retry(exception, attempt, config)
should_retry(exception, attempt, config) ==
    IF attempt >= config.max_attempts THEN FALSE
    ELSE IF \E exc_type \in config.non_retryable_exceptions :
               isinstance(exception, exc_type) THEN FALSE
    ELSE IF /\ isinstance(exception, "AutomationException")
            /\ \/ exception.severity \notin config.retry_on_severity
               \/ exception.category \notin config.retry_on_categories THEN FALSE
    ELSE IF \E exc_type \in config.retryable_exceptions :
               isinstance(exception, exc_type) THEN TRUE
    ELSE FALSE

(***************************************************************************)
(* _execute_with_retry                                                     *)
(***************************************************************************)

\* RetryStats(operation_id, operation_name); an entry of `attempts` keeps the
\* attempt_number and exception fields of RetryAttempt.
RetryStats ==
    [total_attempts |-> 0, successful_attempts |-> 0, failed_attempts |-> 0,
     attempts |-> <<>>, final_success |-> FALSE, final_exception |-> NoException]

\* The bookkeeping of the success branch of an attempt.
record_success(stats, attempt) ==
    [stats EXCEPT !.attempts = Append(@, [attempt_number |-> attempt,
                                          exception |-> NoException]),
                  !.total_attempts = @ + 1,
                  !.successful_attempts = @ + 1,
                  !.final_success = TRUE]

\* Faulty variant: the first exception is kept as the final one.
record_failure_keeps_first(stats, attempt, e) ==
    [stats EXCEPT !.attempts = Append(@, [attempt_number |-> attempt, exception |-> e]),
                  !.total_attempts = @ + 1,
                  !.failed_attempts = @ + 1,
                  !.final_exception = IF @ = NoException THEN e ELSE @]

\* The bookkeeping of the `except Exception as e` branch of an attempt.
record_failure(stats, attempt, e) ==
    [stats EXCEPT !.attempts = Append(@, [attempt_number |-> attempt, exception |-> e]),
                  !.total_attempts = @ + 1,
                  !.failed_attempts = @ + 1,
                  !.final_exception = e]

\* Faulty variant: the loop runs one attempt too many.
in_range_off_by_one(attempt, config) == attempt \in 1..(config.max_attempts + 1)

\* attempt in range(1, config.max_attempts + 1)
in_range(attempt, config) == attempt \in 1..config.max_attempts

\* `raise stats.final_exception` after the loop.
raise_final(stats) ==
    IF stats.final_exception = NoException THEN RaiseNoneError ELSE stats.final_exception

NoResult == [kind |-> "none", value |-> "", exc |-> NoException]
Returned(v) == [kind |-> "value", value |-> v, exc |-> NoException]
Raised(e) == [kind |-> "exception", value |-> "", exc |-> e]

\* Ghost: the outcome of an attempt ("ok", "exception", "base_exception" of
\* the wrapped function, or "rejected" by the circuit breaker).
Outcome(k, v, e) == [kind |-> k, value |-> v, exc |-> e]

\* The `except Exception as e` branch of the loop body for the exception e of
\* attempt r_attempt: bookkeeping, then `continue` or `break`, then what
\* follows the loop.
HandleException(e) ==
    LET stats == record_failure(r_stats, r_attempt, e) IN
    /\ r_stats' = stats
    /\ IF should_retry(e, r_attempt, r_config) /\ in_range(r_attempt + 1, r_config)
       THEN /\ r_pc' = "loop"
            /\ r_attempt' = r_attempt + 1
            /\ r_result' = r_result
       ELSE /\ r_pc' = "raised"
            /\ r_attempt' = r_attempt
            /\ r_result' = Raised(raise_final(stats))

\* The decorated function is called: _execute_with_retry starts.
RetryCall ==
    /\ r_pc \in {"idle", "returned", "raised"}
    /\ r_stats' = RetryStats
    /\ r_invocations' = 0
    /\ r_delay' = 0
    /\ r_last' = Outcome("none", "", NoException)
    /\ IF in_range(1, r_config)
       THEN /\ r_pc' = "loop"
            /\ r_attempt' = 1
            /\ r_result' = NoResult
       ELSE /\ r_pc' = "raised"
            /\ r_attempt' = 0
            /\ r_result' = Raised(raise_final(RetryStats))
    /\ UNCHANGED <<cbvars, now, r_config, r_use_cb, dvars, bmvars, extvars>>

\* One iteration of the loop up to the call of the wrapped function: the
\* delay, then the circuit breaker's gate when a breaker is named.
RetryAttempt ==
    /\ r_pc = "loop"
    /\ \E rnd \in RandomDraws :
         r_delay' = IF r_attempt > 1 THEN calculate_delay(r_attempt, r_config, rnd) ELSE 0
    /\ IF r_use_cb /\ call_gate(cb, now).rejected
       THEN /\ CbGateStep
            /\ HandleException(CircuitOpenError)
            /\ r_last' = Outcome("rejected", "", CircuitOpenError)
            /\ UNCHANGED r_invocations
       ELSE /\ IF r_use_cb THEN CbGateStep ELSE UNCHANGED cbvars
            /\ r_pc' = "in_func"
            /\ r_invocations' = r_invocations + 1
            /\ UNCHANGED <<r_attempt, r_stats, r_result, r_last>>
    /\ UNCHANGED <<now, r_config, r_use_cb, dvars, bmvars, extvars>>

\* The wrapped function returns a value: the success branch.
RetryFuncReturns ==
    /\ r_pc = "in_func"
    /\ \E v \in ReturnValues :
         /\ r_result' = Returned(v)
         /\ r_last' = Outcome("ok", v, NoException)
    /\ IF r_use_cb THEN CbReturnStep("ok") ELSE UNCHANGED cbvars
    /\ r_stats' = record_success(r_stats, r_attempt)
    /\ r_pc' = "returned"
    /\ UNCHANGED <<now, r_config, r_use_cb, r_attempt, r_delay, r_invocations, dvars, bmvars, extvars>>

\* The wrapped function raises: the handler of the loop when the exception
\* is an Exception; a BaseException that is no Exception leaves
\* _execute_with_retry at once.
RetryFuncRaises ==
    /\ r_pc = "in_func"
    /\ \E e \in RaisedExceptions :
         IF isinstance(e, "Exception")
         THEN /\ IF r_use_cb THEN CbReturnStep("exception") ELSE UNCHANGED cbvars
              /\ HandleException(e)
              /\ r_last' = Outcome("exception", "", e)
         ELSE /\ IF r_use_cb THEN CbReturnStep("base_exception") ELSE UNCHANGED cbvars
              /\ r_pc' = "raised"
              /\ r_result' = Raised(e)
              /\ r_last' = Outcome("base_exception", "", e)
              /\ UNCHANGED <<r_attempt, r_stats>>
    /\ UNCHANGED <<now, r_config, r_use_cb, r_delay, r_invocations, dvars, bmvars, extvars>>

(***************************************************************************)
(* BrowserManager: the table of sessions.  A session id is a number of     *)
(* SessionIds, a browser is the number of the launch that started it, the  *)
(* wall clock counts hours.                                                *)
(***************************************************************************)

\* One more id than the largest limit, so that a fresh id always exists.
SessionIds == 1..(MaxBrowsers + 1)

\* session_id: Optional[str] = None
NoSessionId == 0

\* self._max_idle_time = timedelta(hours=1)
max_idle_time == 1

\* AutomationException.__init__ evaluates _generate_error_code(), which
\* reads self.timestamp before __init__ has set it, whenever no error_code
\* is passed: the constructor then raises AttributeError.
new_exception(t, sev, cat, error_code_given) ==
    IF error_code_given THEN AutomationExc(t, sev, cat) ELSE Exc("AttributeError")

\* BrowserException("Maximum concurrent browsers reached", severity=HIGH)
LimitReachedError == new_exception("BrowserException", "high", "browser", FALSE)

\* BrowserLaunchException(..., browser_name=browser_name)
LaunchFailedError == new_exception("BrowserLaunchException", "critical", "browser", FALSE)

\* BrowserSession(session_id, browser_name, browser) at wall clock t.
BrowserSession(sid, name, b, t) ==
    [session_id |-> sid, browser_name |-> name, browser |-> b,
     contexts |-> 0, pages |-> 0, created_at |-> t, last_activity |-> t]

\* The table S without the key sid: del self._sessions[sid].
Without(S, sid) == [k \in (DOMAIN S) \ {sid} |-> S[k]]

\* The table S with S[sid] = session.
With(S, sid, session) ==
    [k \in (DOMAIN S) \cup {sid} |-> IF k = sid THEN session ELSE S[k]]

\* The ids _cleanup_idle_sessions finds idle at wall clock t.
idle_sessions(S, t) == {sid \in DOMAIN S : t - S[sid].last_activity > max_idle_time}

\* What may go wrong while the sessions `ids` of S are closed: the browsers
\* whose close() raises, and the browsers of the sessions one of whose pages,
\* or one of whose contexts, raises in close() (a page or a context can fail
\* only where the session has one).
Failures(S, ids) ==
    [browser : SUBSET {S[k].browser : k \in ids \cap DOMAIN S},
     page    : SUBSET {S[k].browser : k \in {x \in ids \cap DOMAIN S : S[x].pages > 0}},
     context : SUBSET {S[k].browser : k \in {x \in ids \cap DOMAIN S : S[x].contexts > 0}}]

\* Whether close_session(sid) logs "Error closing page" or "Error closing
\* context": the exception is caught inside the loop and closing goes on.
child_errors(S, sid, failing) ==
    S[sid].browser \in failing.page \cup failing.context

\* Faulty variant: a session whose browser fails to close stays tracked.
close_session_keeps_failed(S, live, sid, failing) ==
    IF sid \notin DOMAIN S
    THEN [sessions |-> S, live |-> live, result |-> FALSE, found |-> FALSE,
          child_errors |-> FALSE]
    ELSE IF S[sid].browser \in failing.browser
         THEN [sessions |-> S, live |-> live, result |-> FALSE, found |-> TRUE,
               child_errors |-> child_errors(S, sid, failing)]
         ELSE [sessions |-> Without(S, sid), live |-> live \ {S[sid].browser},
               result |-> TRUE, found |-> TRUE,
               child_errors |-> child_errors(S, sid, failing)]

\* close_session(sid) on the table S.  An exception of a page's or of a
\* context's close() is logged and dropped by the inner handlers; one of the
\* browser's close() reaches the outer handler.  The session leaves the
\* table on both paths; the browser is closed only when close() did not
\* raise.
close_session(S, live, sid, failing) ==
    IF sid \notin DOMAIN S
    THEN [sessions |-> S, live |-> live, result |-> FALSE, found |-> FALSE,
          child_errors |-> FALSE]
    ELSE IF S[sid].browser \in failing.browser
         THEN [sessions |-> Without(S, sid), live |-> live,
               result |-> FALSE, found |-> TRUE,
               child_errors |-> child_errors(S, sid, failing)]
         ELSE [sessions |-> Without(S, sid), live |-> live \ {S[sid].browser},
               result |-> TRUE, found |-> TRUE,
               child_errors |-> child_errors(S, sid, failing)]

\* _cleanup_idle_sessions: close_session on every idle session.
RECURSIVE close_all(_, _, _, _)
close_all(S, live, ids, failing) ==
    IF ids = {}
    THEN [sessions |-> S, live |-> live]
    ELSE LET sid == CHOOSE x \in ids : TRUE
             r == close_session(S, live, sid, failing)
         IN close_all(r.sessions, r.live, ids \ {sid}, failing)

cleanup_idle_sessions(S, live, t, failing) ==
    close_all(S, live, idle_sessions(S, t), failing)

SupportedBrowsers == {"chromium", "chrome", "firefox", "webkit", "safari"}

\* Faulty variant: the limit of concurrent browsers is not checked.
launch_attempt_no_limit(S, live, max, sid, uuid, name, launch_ok, b, t, failing) ==
    IF name \in SupportedBrowsers /\ launch_ok
    THEN LET session_id == IF sid # NoSessionId THEN sid ELSE uuid IN
         [sessions |-> With(S, session_id, BrowserSession(session_id, name, b, t)),
          live |-> live \cup {b}, raised |-> FALSE, exc |-> NoException,
          session_id |-> session_id, started |-> TRUE, why |-> ""]
    ELSE [sessions |-> S, live |-> live, raised |-> TRUE, exc |-> LaunchFailedError,
          session_id |-> NoSessionId, started |-> FALSE, why |-> "launch_failed"]

\* The body of launch_browser (one attempt of the retry loop around it):
\* the limit check with its clean-up of idle sessions, then the launch.
\* sid is the caller's session_id (or NoSessionId), uuid the value of
\* uuid4(), launch_ok whether launcher.launch returns, b the browser it
\* returns.
launch_attempt(S, live, max, sid, uuid, name, launch_ok, b, t, failing) ==
    LET c == IF Cardinality(DOMAIN S) >= max
             THEN cleanup_idle_sessions(S, live, t, failing)
             ELSE [sessions |-> S, live |-> live]
    IN
    IF Cardinality(DOMAIN S) >= max /\ Cardinality(DOMAIN c.sessions) >= max
    THEN [sessions |-> c.sessions, live |-> c.live, raised |-> TRUE,
          exc |-> LimitReachedError, session_id |-> NoSessionId, started |-> FALSE,
          why |-> "limit_reached"]
    ELSE IF name \in SupportedBrowsers /\ launch_ok
    THEN LET session_id == IF sid # NoSessionId THEN sid ELSE uuid IN
         [sessions |-> With(c.sessions, session_id,
                            BrowserSession(session_id, name, b, t)),
          live |-> c.live \cup {b}, raised |-> FALSE, exc |-> NoException,
          session_id |-> session_id, started |-> TRUE, why |-> ""]
    ELSE [sessions |-> c.sessions, live |-> c.live, raised |-> TRUE,
          exc |-> LaunchFailedError, session_id |-> NoSessionId, started |-> FALSE,
          why |-> "launch_failed"]

\* launch_browser under @retry_with_backoff(create_browser_retry_config()):
\* the results the call may end with, from attempt `attempt` on.  Every
\* attempt is made with the caller's arguments and repeated while
\* should_retry allows; launcher.launch (reached for a supported browser
\* name only) may return or raise in each attempt.
RECURSIVE launch_browser(_, _, _, _, _, _, _, _, _, _)
launch_browser(S, live, max, attempt, sid, uuid, name, b, t, failing) ==
    UNION { LET r == launch_attempt(S, live, max, sid, uuid, name, launch_ok,
                                    b, t, failing)
            IN IF /\ r.raised
                  /\ should_retry(r.exc, attempt, create_browser_retry_config)
                  /\ in_range(attempt + 1, create_browser_retry_config)
               THEN launch_browser(r.sessions, r.live, max, attempt + 1, sid, uuid,
                                   name, b, t, failing)
               ELSE {r}
            : launch_ok \in IF name \in SupportedBrowsers THEN BOOLEAN ELSE {FALSE} }

\* manager.launch_browser(browser_name, session_id) is called.  uuid4(),
\* evaluated when no session_id is given, returns an id that is not a key of
\* the table; close() of any browser the clean-up closes may raise.
LaunchBrowser ==
    /\ launched < MaxLaunches
    /\ \E sid \in SessionIds \cup {NoSessionId},
          name \in {"chromium", "opera"},
          failing \in Failures(sessions, idle_sessions(sessions, bm_clock)) :
       \E uuid \in IF sid = NoSessionId THEN SessionIds \ DOMAIN sessions
                                        ELSE {NoSessionId} :
       \E r \in launch_browser(sessions, live_browsers,
                               settings.max_concurrent_browsers, 1, sid, uuid,
                               name, launched + 1, bm_clock, failing) :
            /\ sessions' = r.sessions
            /\ live_browsers' = r.live
            /\ launched' = IF r.started THEN launched + 1 ELSE launched
            /\ bm_result' = [op |-> "launch_browser",
                             value |-> IF r.raised THEN r.exc.type ELSE "session",
                             why |-> r.why, session_id |-> r.session_id]
    /\ UNCHANGED <<cbvars, now, rvars, dvars, extvars, settings, bm_clock>>

\* manager.close_session(session_id) is called, with a tracked or an unknown
\* id; the browser's close() may raise.
CloseSession ==
    /\ \E sid \in SessionIds :
       \E failing \in Failures(sessions, {sid}) :
         LET r == close_session(sessions, live_browsers, sid, failing) IN
         /\ sessions' = r.sessions
         /\ live_browsers' = r.live
         /\ bm_result' = [op |-> "close_session",
                          value |-> IF r.result THEN "True" ELSE "False",
                          why |-> IF r.child_errors THEN "child_errors" ELSE "",
                          session_id |-> sid]
    /\ UNCHANGED <<cbvars, now, rvars, dvars, extvars, settings, bm_clock, launched>>

\* An hour passes.
BmTick ==
    /\ bm_clock < MaxClock
    /\ bm_clock' = bm_clock + 1
    /\ UNCHANGED <<cbvars, now, rvars, dvars, extvars, settings, sessions, launched,
                   live_browsers, bm_result>>

\* BrowserException(f"Session {session_id} not found", ...)
SessionNotFoundError == new_exception("BrowserException", "high", "browser", FALSE)

\* BrowserException(f"Failed to create context: {e}", original_exception=e)
CreateFailedError == new_exception("BrowserException", "high", "browser", FALSE)

\* create_context(sid) at wall clock t; ok tells whether browser.new_context
\* returns.  update_activity() runs before the attempt.
create_context(S, sid, ok, t) ==
    IF sid \notin DOMAIN S
    THEN [sessions |-> S, raised |-> TRUE, exc |-> SessionNotFoundError]
    ELSE LET S1 == [S EXCEPT ![sid].last_activity = t] IN
         IF ok
         THEN [sessions |-> [S1 EXCEPT ![sid].contexts = @ + 1],
               raised |-> FALSE, exc |-> NoException]
         ELSE [sessions |-> S1, raised |-> TRUE, exc |-> CreateFailedError]

\* create_page(sid, context) at wall clock t: without a context one is
\* created first (context_ok), then context.new_page() returns or raises
\* (page_ok).
create_page(S, sid, with_context, context_ok, page_ok, t) ==
    IF sid \notin DOMAIN S
    THEN [sessions |-> S, raised |-> TRUE, exc |-> SessionNotFoundError]
    ELSE LET S1 == [S EXCEPT ![sid].last_activity = t]
             c  == IF with_context
                   THEN [sessions |-> S1, raised |-> FALSE, exc |-> NoException]
                   ELSE create_context(S1, sid, context_ok, t)
         IN IF c.raised
            THEN [sessions |-> c.sessions, raised |-> TRUE, exc |-> CreateFailedError]
            ELSE IF page_ok
                 THEN [sessions |-> [c.sessions EXCEPT ![sid].pages = @ + 1],
                       raised |-> FALSE, exc |-> NoException]
                 ELSE [sessions |-> c.sessions, raised |-> TRUE,
                       exc |-> CreateFailedError]

\* get_session_stats(): the counts it reports.
get_session_stats(S, max) ==
    [total_sessions |-> Cardinality(DOMAIN S),
     max_concurrent_browsers |-> max]

NoStats == [total_sessions |-> 0, max_concurrent_browsers |-> 0]

\* The contexts and pages of all the sessions of S.
RECURSIVE TotalChildren(_)
TotalChildren(S) ==
    IF DOMAIN S = {} THEN 0
    ELSE LET k == CHOOSE x \in DOMAIN S : TRUE
         IN S[k].contexts + S[k].pages + TotalChildren(Without(S, k))

\* manager.create_context(session_id) is called, with a tracked or an unknown
\* id.
CreateContext ==
    /\ \E sid \in DOMAIN sessions \cup {CHOOSE x \in SessionIds : x \notin DOMAIN sessions},
          ok \in BOOLEAN :
         /\ TotalChildren(sessions) < MaxChildren
         /\ LET r == create_context(sessions, sid, ok, bm_clock) IN
            /\ sessions' = r.sessions
            /\ bm_result' = [op |-> "create_context",
                             value |-> IF r.raised THEN r.exc.type ELSE "context",
                             why |-> "", session_id |-> sid]
    /\ UNCHANGED <<cbvars, now, rvars, dvars, extvars, settings, bm_clock, launched,
                   live_browsers>>

\* manager.create_page(session_id, context) is called.
CreatePage ==
    /\ \E sid \in DOMAIN sessions \cup {CHOOSE x \in SessionIds : x \notin DOMAIN sessions},
          with_context \in BOOLEAN, context_ok \in BOOLEAN, page_ok \in BOOLEAN :
         /\ TotalChildren(sessions) + (IF with_context THEN 1 ELSE 2) <= MaxChildren
         /\ with_context => sid \in DOMAIN sessions /\ sessions[sid].contexts > 0
         /\ LET r == create_page(sessions, sid, with_context, context_ok, page_ok,
                                 bm_clock) IN
            /\ sessions' = r.sessions
            /\ bm_result' = [op |-> "create_page",
                             value |-> IF r.raised THEN r.exc.type ELSE "page",
                             why |-> "", session_id |-> sid]
    /\ UNCHANGED <<cbvars, now, rvars, dvars, extvars, settings, bm_clock, launched,
                   live_browsers>>

\* How the block of a `with` statement ends.
BlockExits == {"normal", "exception", "base_exception"}

\* Faulty variant: the session is closed only when the block ends normally.
browser_session_exit_normal_only(S, live, session_id, how, failing) ==
    IF session_id # NoSessionId /\ how = "normal"
    THEN close_session(S, live, session_id, failing)
    ELSE [sessions |-> S, live |-> live, result |-> FALSE, found |-> FALSE,
          child_errors |-> FALSE]

\* The finally clause of browser_session: `if session:
\* self.close_session(session.session_id)`, however the block ended.
browser_session_exit(S, live, session_id, how, failing) ==
    IF session_id # NoSessionId
    THEN close_session(S, live, session_id, failing)
    ELSE [sessions |-> S, live |-> live, result |-> FALSE, found |-> FALSE,
          child_errors |-> FALSE]

\* `with manager.browser_session(browser_name, **launch_options)` is entered:
\* launch_browser is called (launch_options may carry a session_id) and the
\* session is yielded to the block, whose first statement here reads
\* get_session_stats().  When launch_browser raises, session stays None, the
\* finally clause closes nothing and the exception leaves the statement.
CmEnter ==
    /\ cm_pc = "idle"
    /\ launched < MaxLaunches
    /\ \E sid \in SessionIds \cup {NoSessionId},
          name \in {"chromium", "opera"},
          failing \in Failures(sessions, idle_sessions(sessions, bm_clock)) :
       \E uuid \in IF sid = NoSessionId THEN SessionIds \ DOMAIN sessions
                                        ELSE {NoSessionId} :
       \E r \in launch_browser(sessions, live_browsers,
                               settings.max_concurrent_browsers, 1, sid, uuid,
                               name, launched + 1, bm_clock, failing) :
         LET x == browser_session_exit(r.sessions, r.live, NoSessionId, "exception",
                                       failing) IN
            /\ sessions' = IF r.raised THEN x.sessions ELSE r.sessions
            /\ live_browsers' = IF r.raised THEN x.live ELSE r.live
            /\ launched' = IF r.started THEN launched + 1 ELSE launched
            /\ bm_result' = [op |-> "browser_session",
                             value |-> IF r.raised THEN r.exc.type ELSE "session",
                             why |-> r.why, session_id |-> r.session_id]
            /\ cm_pc' = IF r.raised THEN "failed" ELSE "block"
            /\ cm_session' = r.session_id
            /\ cm_exit' = "none"
            /\ cm_stats' = IF r.raised THEN NoStats
                           ELSE get_session_stats(r.sessions,
                                                  settings.max_concurrent_browsers)
    /\ UNCHANGED <<cbvars, now, rvars, dvars, ext_but_cm, settings, bm_clock>>

\* The block ends, normally or by an exception, and the finally clause runs.
CmExit ==
    /\ cm_pc = "block"
    /\ \E how \in BlockExits, failing \in Failures(sessions, {cm_session}) :
         LET r == browser_session_exit(sessions, live_browsers, cm_session, how,
                                       failing) IN
            /\ sessions' = r.sessions
            /\ live_browsers' = r.live
            /\ bm_result' = [op |-> "browser_session_exit",
                             value |-> IF r.result THEN "True" ELSE "False",
                             why |-> IF r.child_errors THEN "child_errors" ELSE "",
                             session_id |-> cm_session]
            /\ cm_pc' = "exited"
            /\ cm_exit' = how
    /\ UNCHANGED <<cbvars, now, rvars, dvars, ext_but_cm, settings, bm_clock,
                   launched, cm_session, cm_stats>>

(***************************************************************************)
(* get_browser_manager: the module global _browser_manager.                *)
(***************************************************************************)

\* settings: Optional[Settings] = None
NoSettings == [max_concurrent_browsers |-> 0]

\* get_settings(): the cached Settings() of the environment, whose
\* browser.max_concurrent_browsers is the field's default.
get_settings == [max_concurrent_browsers |-> 5]

\* The Settings objects a caller passes.
PassedSettings == {[max_concurrent_browsers |-> n] : n \in 1..MaxBrowsers}

\* get_browser_manager(s), the global being g ("None" or "BrowserManager")
\* and the global manager's settings being current: a manager is
\* constructed, with `s or get_settings()`, only while the global is None.
get_browser_manager(g, current, s) ==
    IF g = "None"
    THEN [global |-> "BrowserManager", created |-> TRUE,
          settings |-> IF s = NoSettings THEN get_settings ELSE s]
    ELSE [global |-> g, created |-> FALSE, settings |-> current]

\* get_browser_manager(settings) is called, with a Settings object or none.
GetBrowserManager ==
    /\ \E s \in PassedSettings \cup {NoSettings} :
         LET r == get_browser_manager(global_manager, settings, s) IN
            /\ global_manager' = r.global
            /\ settings' = r.settings
            /\ gbm_call' = [settings |-> s, returned |-> r.settings]
            /\ IF r.created
               THEN /\ sessions' = <<>>
                    /\ live_browsers' = {}
                    /\ bm_result' = [op |-> "none", value |-> "", why |-> "",
                                     session_id |-> NoSessionId]
               ELSE UNCHANGED <<sessions, live_browsers, bm_result>>
    /\ UNCHANGED <<cbvars, now, rvars, dvars, ext_but_g, bm_clock, launched>>

(***************************************************************************)
(* logger.py: the global LoggingManager.  A log file is the number of      *)
(* messages written to it; the root logger's handlers are "console" and    *)
(* the paths of the log files.                                             *)
(***************************************************************************)

\* logging's numeric levels.
LevelNo(level) ==
    CASE level = "DEBUG" -> 10
      [] level = "INFO" -> 20
      [] level = "WARNING" -> 30
      [] level = "ERROR" -> 40

LogLevels == {"DEBUG", "INFO", "ERROR"}

\* log_file_path: Optional[Path] = None
NoPath == "None"

\* log_path = log_file_path or Path("logs/automation.log")
DefaultLogPath == "logs/automation.log"

LogPaths == {DefaultLogPath, "test.log"}

\* The state of the logging system.
Logging(configured, level, handlers, files) ==
    [configured |-> configured, level |-> level, handlers |-> handlers,
     files |-> files]

\* A logger's debug()/info()/error(): the record passes the root logger's
\* level and reaches every handler of the root logger; a file handler
\* appends it to its file.
emit(L, level) ==
    IF LevelNo(level) >= LevelNo(L.level)
    THEN [L EXCEPT !.files = [f \in DOMAIN L.files |->
                                 IF f \in L.handlers THEN L.files[f] + 1
                                 ELSE L.files[f]]]
    ELSE L

\* The arguments of setup_logging / configure_logging.
LoggingArgs(level, console, file, path) ==
    [log_level |-> level, enable_console |-> console, enable_file |-> file,
     log_file_path |-> path]

\* configure_logging(): the defaults of its parameters.
DefaultLoggingArgs == LoggingArgs("INFO", TRUE, TRUE, NoPath)

\* configure_logging(**args): nothing when _configured is set; otherwise the
\* root level, the cleared handler list, the console and the file handler
\* (which opens its file), _configured, and the message "Logging system
\* configured".
configure_logging(L, args) ==
    IF L.configured
    THEN L
    ELSE LET log_path == IF args.log_file_path = NoPath THEN DefaultLogPath
                         ELSE args.log_file_path
             handlers == (IF args.enable_console THEN {"console"} ELSE {})
                            \cup (IF args.enable_file THEN {log_path} ELSE {})
             files    == IF args.enable_file
                         THEN [f \in DOMAIN L.files \cup {log_path} |->
                                  IF f \in DOMAIN L.files THEN L.files[f] ELSE 0]
                         ELSE L.files
         IN emit(Logging(TRUE, args.log_level, handlers, files), "INFO")

\* LoggingManager.get_logger(name): configures with the defaults when nothing
\* is configured yet.
get_logger(L) == IF L.configured THEN L ELSE configure_logging(L, DefaultLoggingArgs)

\* The logging system as the variables hold it.
CurrentLogging == Logging(log_configured, log_level, log_handlers, log_files)

\* setup_logging(log_level, enable_console, enable_file, log_file_path) is
\* called.
SetupLogging ==
    /\ \E level \in LogLevels, console \in BOOLEAN, file \in BOOLEAN,
          path \in LogPaths \cup {NoPath} :
         LET args == LoggingArgs(level, console, file, path)
             L    == configure_logging(CurrentLogging, args)
         IN /\ log_configured' = L.configured
            /\ log_level' = L.level
            /\ log_handlers' = L.handlers
            /\ log_files' = L.files
            /\ log_call' = args
    /\ UNCHANGED <<cbvars, now, rvars, dvars, bmvars, ext_but_log>>

\* get_logger(name).debug/info/error(message) is called.
LogMessage ==
    /\ \A f \in DOMAIN log_files : log_files[f] < MaxMessages
    /\ \E level \in LogLevels :
         LET L == emit(get_logger(CurrentLogging), level)
         IN /\ log_configured' = L.configured
            /\ log_level' = L.level
            /\ log_handlers' = L.handlers
            /\ log_files' = L.files
    /\ UNCHANGED <<cbvars, now, rvars, dvars, bmvars, ext_but_log, log_call>>

(***************************************************************************)
(* Settings: the constructor.  Its input is what the sources (keyword      *)
(* arguments, environment variables, .env files, defaults) supply for the  *)
(* fields; field validation comes first, then the model validator          *)
(* configure_environment_defaults.                                         *)
(***************************************************************************)

Environments == {"development", "testing", "staging", "production"}

\* The fields of Settings the model validator reads or writes.
SettingsFields(env, debug, headless, video, timeout, slow_mo, level, cleanup) ==
    [environment |-> env, debug |-> debug, headless |-> headless,
     record_video |-> video, timeout |-> timeout, slow_mo |-> slow_mo,
     logging_level |-> level, cleanup_data |-> cleanup]

\* Settings(): every field at its default.
DefaultSettingsFields ==
    SettingsFields("development", FALSE, TRUE, FALSE, 30000, 0, "INFO", TRUE)

\* The values the constructor is tried on; a browser timeout of 0 is
\* outside the field's range (ge=5000).
SettingsInputs ==
    { SettingsFields(env, debug, headless, record_video, timeout, slow_mo, "INFO",
                     TRUE) :
        env \in Environments, debug \in BOOLEAN, headless \in BOOLEAN,
        record_video \in BOOLEAN, timeout \in {0, 10000, 30000},
        slow_mo \in {0, 50} }

\* timeout: int = Field(default=30000, ge=5000, le=300000)
valid_fields(f) == f.timeout >= 5000 /\ f.timeout <= 300000

\* configure_environment_defaults: the adjustments per environment.  No
\* branch raises.
configure_environment_defaults(f) ==
    CASE f.environment = "production" ->
            [f EXCEPT !.headless = TRUE, !.record_video = FALSE, !.debug = FALSE,
                      !.logging_level = "INFO"]
      [] f.environment = "development" ->
            [f EXCEPT !.logging_level = IF ~f.debug THEN "DEBUG" ELSE @,
                      !.slow_mo = IF f.slow_mo = 0 THEN 100 ELSE @,
                      !.cleanup_data = FALSE]
      [] f.environment = "testing" ->
            [f EXCEPT !.headless = TRUE, !.timeout = Min(f.timeout, 15000)]
      [] OTHER -> f

\* Settings(**f): a ValidationError (a ValueError) when a field is out of
\* range, otherwise the object the model validator returns.
NewSettings(f) ==
    IF ~valid_fields(f)
    THEN [done |-> TRUE, raised |-> TRUE, exc |-> "ValueError", value |-> f]
    ELSE [done |-> TRUE, raised |-> FALSE, exc |-> "",
          value |-> configure_environment_defaults(f)]

NotConstructed ==
    [done |-> FALSE, raised |-> FALSE, exc |-> "", value |-> DefaultSettingsFields]

\* Settings(...) is constructed.
ConstructSettings ==
    /\ \E f \in SettingsInputs :
         /\ st_input' = f
         /\ st_result' = NewSettings(f)
    /\ UNCHANGED <<cbvars, now, rvars, dvars, bmvars, ext_but_set>>

(***************************************************************************)
(* Inventory (validate_assignment=True): every assignment to a field       *)
(* validates the field and then runs the model validator                   *)
(* validate_inventory_levels on the object with the new value.             *)
(***************************************************************************)

Inventory(quantity, reserved) ==
    [quantity |-> quantity, reserved_quantity |-> reserved]

\* validate_inventory_levels raises ValueError.
inventory_levels_invalid(inv) == inv.reserved_quantity > inv.quantity

\* What is left of an assignment whose model validator raised: the
\* validator runs on the object after the new value is stored, and the
\* library either leaves the value in place or restores the old one.
FailedAssignments == {"kept", "reverted"}

\* self.<field> = value under validate_assignment.  A value below the
\* field's bound (ge=0) is rejected before anything is stored.
assign(inv, field, value, failed) ==
    LET new == IF field = "quantity" THEN [inv EXCEPT !.quantity = value]
               ELSE [inv EXCEPT !.reserved_quantity = value]
    IN IF value < 0
       THEN [inventory |-> inv, raised |-> TRUE]
       ELSE IF inventory_levels_invalid(new)
            THEN [inventory |-> IF failed = "kept" THEN new ELSE inv, raised |-> TRUE]
            ELSE [inventory |-> new, raised |-> FALSE]

\* available_quantity
available_quantity(inv) == inv.quantity - inv.reserved_quantity

\* The outcome of a method: the object after it and "True", "False" or
\* "ValueError".
InvOutcome(inv, value) == [inventory |-> inv, value |-> value]

\* reserve_stock(quantity)
reserve_stock(inv, quantity, failed) ==
    IF quantity <= 0
    THEN InvOutcome(inv, "False")
    ELSE IF available_quantity(inv) >= quantity
         THEN LET a == assign(inv, "reserved_quantity",
                              inv.reserved_quantity + quantity, failed)
              IN InvOutcome(a.inventory, IF a.raised THEN "ValueError" ELSE "True")
         ELSE InvOutcome(inv, "False")

\* release_stock(quantity)
release_stock(inv, quantity, failed) ==
    IF quantity <= 0
    THEN InvOutcome(inv, "False")
    ELSE IF inv.reserved_quantity >= quantity
         THEN LET a == assign(inv, "reserved_quantity",
                              inv.reserved_quantity - quantity, failed)
              IN InvOutcome(a.inventory, IF a.raised THEN "ValueError" ELSE "True")
         ELSE InvOutcome(inv, "False")

\* fulfill_stock(quantity): quantity is assigned first, reserved_quantity
\* second.
fulfill_stock(inv, quantity, failed) ==
    IF quantity <= 0
    THEN InvOutcome(inv, "False")
    ELSE IF inv.reserved_quantity >= quantity /\ inv.quantity >= quantity
         THEN LET a == assign(inv, "quantity", inv.quantity - quantity, failed)
              IN IF a.raised
                 THEN InvOutcome(a.inventory, "ValueError")
                 ELSE LET b == assign(a.inventory, "reserved_quantity",
                                      a.inventory.reserved_quantity - quantity,
                                      failed)
                      IN InvOutcome(b.inventory,
                                    IF b.raised THEN "ValueError" ELSE "True")
         ELSE InvOutcome(inv, "False")

\* The quantities the methods are called with.
CallQuantities == 0..MaxStock

\* inventory.reserve_stock(q) is called.
ReserveStock ==
    /\ \E q \in CallQuantities, failed \in FailedAssignments :
         LET r == reserve_stock(inventory, q, failed) IN
            /\ inventory' = r.inventory
            /\ inv_result' = [op |-> "reserve_stock", quantity |-> q, value |-> r.value]
    /\ UNCHANGED <<cbvars, now, rvars, dvars, bmvars, ext_but_inv>>

\* inventory.release_stock(q) is called.
ReleaseStock ==
    /\ \E q \in CallQuantities, failed \in FailedAssignments :
         LET r == release_stock(inventory, q, failed) IN
            /\ inventory' = r.inventory
            /\ inv_result' = [op |-> "release_stock", quantity |-> q, value |-> r.value]
    /\ UNCHANGED <<cbvars, now, rvars, dvars, bmvars, ext_but_inv>>

\* inventory.fulfill_stock(q) is called.
FulfillStock ==
    /\ \E q \in CallQuantities, failed \in FailedAssignments :
         LET r == fulfill_stock(inventory, q, failed) IN
            /\ inventory' = r.inventory
            /\ inv_result' = [op |-> "fulfill_stock", quantity |-> q, value |-> r.value]
    /\ UNCHANGED <<cbvars, now, rvars, dvars, bmvars, ext_but_inv>>

(***************************************************************************)
(* User (validate_assignment=True, through BaseEntity): every assignment   *)
(* to a field runs the model validator validate_user_state on the object   *)
(* with the new value.                                                     *)
(***************************************************************************)

UserStatuses == {"active", "inactive", "suspended", "pending_verification", "locked"}

\* verification_token: Optional[str]; the tokens callers present.
NoToken == "None"
Tokens == {"t1", "t2"}

User(status, email_verified, token) ==
    [status |-> status, email_verified |-> email_verified,
     verification_token |-> token]

\* validate_user_state raises ValueError: an active user whose email is not
\* verified.
user_state_invalid(u) == u.status = "active" /\ ~u.email_verified

\* self.<field> = value on a User: the model validator runs on the object
\* holding the new value; when it raises, the value stays or is restored
\* (FailedAssignments).
user_assign(u, field, value, failed) ==
    LET new == CASE field = "status" -> [u EXCEPT !.status = value]
                 [] field = "email_verified" -> [u EXCEPT !.email_verified = value]
                 [] field = "verification_token" ->
                        [u EXCEPT !.verification_token = value]
    IN IF user_state_invalid(new)
       THEN [user |-> IF failed = "kept" THEN new ELSE u, raised |-> TRUE]
       ELSE [user |-> new, raised |-> FALSE]

\* The outcome of a method: the object after it and "None", "True", "False"
\* or "ValueError".
UserOutcome(u, value) == [user |-> u, value |-> value]

\* Faulty variant: the check of email_verified is missing.
activate_without_check(u, failed) ==
    LET a == user_assign(u, "status", "active", failed) IN
    IF a.raised
    THEN UserOutcome(a.user, "ValueError")
    ELSE LET b == user_assign(a.user, "verification_token", NoToken, failed)
         IN UserOutcome(b.user, IF b.raised THEN "ValueError" ELSE "None")

\* activate()
activate(u, failed) ==
    IF ~u.email_verified
    THEN UserOutcome(u, "ValueError")
    ELSE LET a == user_assign(u, "status", "active", failed) IN
         IF a.raised
         THEN UserOutcome(a.user, "ValueError")
         ELSE LET b == user_assign(a.user, "verification_token", NoToken, failed)
              IN UserOutcome(b.user, IF b.raised THEN "ValueError" ELSE "None")

\* suspend(reason)
suspend(u, failed) ==
    LET a == user_assign(u, "status", "suspended", failed)
    IN UserOutcome(a.user, IF a.raised THEN "ValueError" ELSE "None")

\* verify_email(token)
verify_email(u, token, failed) ==
    IF u.verification_token # token
    THEN UserOutcome(u, "False")
    ELSE LET a == user_assign(u, "email_verified", TRUE, failed) IN
         IF a.raised
         THEN UserOutcome(a.user, "ValueError")
         ELSE LET b == user_assign(a.user, "verification_token", NoToken, failed) IN
              IF b.raised
              THEN UserOutcome(b.user, "ValueError")
              ELSE IF b.user.status = "pending_verification"
                   THEN LET c == user_assign(b.user, "status", "active", failed)
                        IN UserOutcome(c.user,
                                       IF c.raised THEN "ValueError" ELSE "True")
                   ELSE UserOutcome(b.user, "True")

\* user.activate() is called.
Activate ==
    /\ \E failed \in FailedAssignments :
         LET r == activate(user, failed) IN
            /\ user' = r.user
            /\ user_result' = [op |-> "activate", token |-> NoToken, value |-> r.value]
    /\ UNCHANGED <<cbvars, now, rvars, dvars, bmvars, ext_but_user>>

\* user.suspend() is called.
Suspend ==
    /\ \E failed \in FailedAssignments :
         LET r == suspend(user, failed) IN
            /\ user' = r.user
            /\ user_result' = [op |-> "suspend", token |-> NoToken, value |-> r.value]
    /\ UNCHANGED <<cbvars, now, rvars, dvars, bmvars, ext_but_user>>

\* user.verify_email(token) is called.
VerifyEmail ==
    /\ \E token \in Tokens \cup {NoToken}, failed \in FailedAssignments :
         LET r == verify_email(user, token, failed) IN
            /\ user' = r.user
            /\ user_result' = [op |-> "verify_email", token |-> token,
                               value |-> r.value]
    /\ UNCHANGED <<cbvars, now, rvars, dvars, bmvars, ext_but_user>>

(***************************************************************************)
(* launch_browser_async: coroutines of one event loop on one               *)
(* BrowserManager.  A coroutine runs alone from one await that suspends it *)
(* to the next; another coroutine may run while it is suspended.           *)
(***************************************************************************)

TaskIds == 1..MaxTasks

\* A coroutine that is not inside launch_browser_async.
IdleTask ==
    [pc |-> "idle", session_id |-> NoSessionId, name |-> "", todo |-> {},
     closing |-> NoSessionId, browser |-> 0]

\* The loop of _cleanup_idle_sessions_async over the ids still to close
\* (taken in the order of the table, which the model does not keep: any
\* order): close_session_async returns False at once for an id that is not
\* in the table and is suspended in the close() of the first one that is.
\* closing = NoSessionId: the loop has ended.
RECURSIVE cleanup_next(_, _)
cleanup_next(S, todo) ==
    IF todo = {}
    THEN {[closing |-> NoSessionId, todo |-> {}]}
    ELSE UNION { IF x \in DOMAIN S
                 THEN {[closing |-> x, todo |-> todo \ {x}]}
                 ELSE cleanup_next(S, todo \ {x})
                 : x \in todo }

\* The position of a coroutine after the clean-up loop has reached `step`:
\* suspended in a close(), or past the second check of the limit, which
\* raises or lets the launch begin.
after_cleanup(task, S, max, step) ==
    IF step.closing # NoSessionId
    THEN [task EXCEPT !.pc = "closing", !.closing = step.closing,
                      !.browser = S[step.closing].browser, !.todo = step.todo]
    ELSE IF Cardinality(DOMAIN S) >= max
         THEN IdleTask
         ELSE [task EXCEPT !.pc = "launching", !.closing = NoSessionId,
                           !.browser = 0, !.todo = {}]

\* The result a coroutine whose clean-up has ended in `task` reports.
limit_result(task, old) ==
    IF task = IdleTask
    THEN [op |-> "launch_browser_async", value |-> LimitReachedError.type,
          why |-> "limit_reached", session_id |-> NoSessionId]
    ELSE old

\* The number of coroutines inside launch_browser_async.
in_flight(T) == Cardinality({t \in DOMAIN T : T[t].pc # "idle"})

\* An id that no session and no call in flight has (the least one; 0 when
\* the ids of the model are used up).
fresh_id(S, T) ==
    LET free == SessionIds \ (DOMAIN S \cup {T[k].session_id : k \in DOMAIN T})
    IN IF free = {} THEN 0 ELSE CHOOSE x \in free : \A y \in free : x <= y

\* A coroutine awaits manager.launch_browser_async(browser_name, session_id):
\* the code up to the first await that suspends.  Below the limit that is
\* the start of Playwright or launcher.launch; at the limit it is the
\* close() of the first idle session, and with no idle session the second
\* check raises at once.  uuid4() returns an id no session and no other
\* call has.
LaunchBrowserAsync ==
    /\ launched + in_flight(tasks) + 1 < MaxLaunches
    /\ \E t \in TaskIds, sid \in {1, NoSessionId},
          name \in {"chromium", "opera"} :
       \E uuid \in IF sid = NoSessionId THEN {fresh_id(sessions, tasks)}
                                        ELSE {NoSessionId} :
         /\ tasks[t].pc = "idle"
         /\ sid = NoSessionId => uuid \in SessionIds
         /\ LET max == settings.max_concurrent_browsers
                task == [IdleTask EXCEPT
                            !.session_id = IF sid # NoSessionId THEN sid ELSE uuid,
                            !.name = name]
            IN IF Cardinality(DOMAIN sessions) >= max
               THEN \E step \in cleanup_next(sessions,
                                              idle_sessions(sessions, bm_clock)) :
                      LET new == after_cleanup(task, sessions, max, step) IN
                      /\ tasks' = [tasks EXCEPT ![t] = new]
                      /\ bm_result' = limit_result(new, bm_result)
               ELSE /\ tasks' = [tasks EXCEPT ![t] = [task EXCEPT !.pc = "launching"]]
                    /\ UNCHANGED bm_result
    /\ UNCHANGED <<cbvars, now, rvars, dvars, ext_but_async, settings, sessions,
                   bm_clock, launched, live_browsers>>

\* close_session_async resumes after the browser's close(), which returned
\* or raised: the id leaves the table on both paths (whatever session it
\* names by now), and the clean-up loop goes on to the next id.
AsyncCloseResume ==
    /\ \E t \in TaskIds, close_ok \in BOOLEAN :
         /\ tasks[t].pc = "closing"
         /\ LET S == Without(sessions, tasks[t].closing)
                max == settings.max_concurrent_browsers
            IN \E step \in cleanup_next(S, tasks[t].todo) :
                 LET new == after_cleanup(tasks[t], S, max, step) IN
                 /\ sessions' = S
                 /\ live_browsers' = IF close_ok
                                     THEN live_browsers \ {tasks[t].browser}
                                     ELSE live_browsers
                 /\ tasks' = [tasks EXCEPT ![t] = new]
                 /\ bm_result' = limit_result(new, bm_result)
    /\ UNCHANGED <<cbvars, now, rvars, dvars, ext_but_async, settings, bm_clock,
                   launched>>

\* launch_browser_async resumes after the start of Playwright and
\* launcher.launch (reached for a supported browser name only), which
\* returned a browser or raised: the session is put into the table, or the
\* exception is wrapped.
AsyncLaunchResume ==
    /\ \E t \in TaskIds :
       \E launch_ok \in IF tasks[t].name \in SupportedBrowsers THEN BOOLEAN
                                                               ELSE {FALSE} :
         /\ tasks[t].pc = "launching"
         /\ tasks' = [tasks EXCEPT ![t] = IdleTask]
         /\ IF launch_ok
            THEN /\ sessions' = With(sessions, tasks[t].session_id,
                                     BrowserSession(tasks[t].session_id,
                                                    tasks[t].name, launched + 1,
                                                    bm_clock))
                 /\ live_browsers' = live_browsers \cup {launched + 1}
                 /\ launched' = launched + 1
                 /\ bm_result' = [op |-> "launch_browser_async", value |-> "session",
                                  why |-> "", session_id |-> tasks[t].session_id]
            ELSE /\ bm_result' = [op |-> "launch_browser_async",
                                  value |-> LaunchFailedError.type,
                                  why |-> "launch_failed", session_id |-> NoSessionId]
                 /\ UNCHANGED <<sessions, live_browsers, launched>>
    /\ UNCHANGED <<cbvars, now, rvars, dvars, ext_but_async, settings, bm_clock>>

(***************************************************************************)
(* The manager while every close() returns: a browser then stops running   *)
(* exactly when the manager closes it.                                     *)
(***************************************************************************)

\* No close() raises.
NoFailures == [browser |-> {}, page |-> {}, context |-> {}]

\* cleanup_all_sessions on the table S: close_session on every key.
cleanup_all_sessions(S, live, failing) == close_all(S, live, DOMAIN S, failing)

\* manager.launch_browser(browser_name, session_id) is called and every
\* close() of the clean-up returns.
LaunchBrowserNoFailure ==
    /\ launched < MaxLaunches
    /\ \E sid \in SessionIds \cup {NoSessionId}, name \in {"chromium", "opera"} :
       \E uuid \in IF sid = NoSessionId THEN SessionIds \ DOMAIN sessions
                                        ELSE {NoSessionId} :
       \E r \in launch_browser(sessions, live_browsers,
                               settings.max_concurrent_browsers, 1, sid, uuid,
                               name, launched + 1, bm_clock, NoFailures) :
            /\ sessions' = r.sessions
            /\ live_browsers' = r.live
            /\ launched' = IF r.started THEN launched + 1 ELSE launched
            /\ bm_result' = [op |-> "launch_browser",
                             value |-> IF r.raised THEN r.exc.type ELSE "session",
                             why |-> r.why, session_id |-> r.session_id]
    /\ UNCHANGED <<cbvars, now, rvars, dvars, extvars, settings, bm_clock>>

\* manager.close_session(session_id) is called and every close() returns.
CloseSessionNoFailure ==
    /\ \E sid \in SessionIds :
         LET r == close_session(sessions, live_browsers, sid, NoFailures) IN
         /\ sessions' = r.sessions
         /\ live_browsers' = r.live
         /\ bm_result' = [op |-> "close_session",
                          value |-> IF r.result THEN "True" ELSE "False",
                          why |-> "", session_id |-> sid]
    /\ UNCHANGED <<cbvars, now, rvars, dvars, extvars, settings, bm_clock, launched>>

\* manager.cleanup_all_sessions() is called and every close() returns.
CleanupAllSessions ==
    /\ LET r == cleanup_all_sessions(sessions, live_browsers, NoFailures) IN
         /\ sessions' = r.sessions
         /\ live_browsers' = r.live
         /\ bm_result' = [op |-> "cleanup_all_sessions", value |-> "", why |-> "",
                          session_id |-> NoSessionId]
    /\ UNCHANGED <<cbvars, now, rvars, dvars, extvars, settings, bm_clock, launched>>

(***************************************************************************)
(* Specifications                                                          *)
(***************************************************************************)

\* A breaker as its constructor leaves it, for thresholds within the bounds.
InitBreaker ==
    /\ \E ft \in 1..MaxFailureThreshold, rt \in 1..MaxRecoveryTimeout,
          st \in 1..MaxSuccessThreshold :
         cb = CircuitBreaker(ft, rt, st)
    /\ cb_pc = "idle"
    /\ cb_event = "none"
    /\ now = 0
    /\ consec_failures = 0
    /\ half_open_successes = 0

\* No retried call has been made yet.
InitRetryIdle ==
    /\ r_pc = "idle"
    /\ r_attempt = 0
    /\ r_stats = RetryStats
    /\ r_delay = 0
    /\ r_result = NoResult
    /\ r_invocations = 0
    /\ r_last = Outcome("none", "", NoException)

\* calculate_delay has not been evaluated.
InitDelayIdle ==
    /\ d_config = RetryConfig
    /\ d_attempt = 1
    /\ d_rnd = 0
    /\ d_pc = "idle"
    /\ d_delay = 0

\* BrowserManager.__init__: no session, no browser; the settings are those
\* given, max_concurrent_browsers being n.
InitManager(n) ==
    /\ settings = [max_concurrent_browsers |-> n]
    /\ sessions = <<>>
    /\ bm_clock = 0
    /\ launched = 0
    /\ live_browsers = {}
    /\ bm_result = [op |-> "none", value |-> "", why |-> "", session_id |-> NoSessionId]

\* The context manager browser_session has not been entered.
InitCmIdle ==
    /\ cm_pc = "idle"
    /\ cm_session = NoSessionId
    /\ cm_exit = "none"
    /\ cm_stats = NoStats

\* _browser_manager: Optional[BrowserManager] = None
InitGlobalNone ==
    /\ global_manager = "None"
    /\ gbm_call = [settings |-> NoSettings, returned |-> NoSettings]

\* _logging_manager = LoggingManager(): nothing is configured, the root
\* logger has its default level and no handler, no log file is written.
InitLoggingFresh ==
    /\ log_configured = FALSE
    /\ log_level = "WARNING"
    /\ log_handlers = {}
    /\ log_files = [f \in {} |-> 0]
    /\ log_call = LoggingArgs("INFO", FALSE, FALSE, NoPath)

\* Settings has not been constructed.
InitSettingsIdle ==
    /\ st_input = DefaultSettingsFields
    /\ st_result = NotConstructed

\* Inventory(variant_id=...): the defaults.
InitInventoryDefault ==
    /\ inventory = Inventory(0, 0)
    /\ inv_result = [op |-> "none", quantity |-> 0, value |-> ""]

\* A User as its defaults leave it.
InitUserDefault ==
    /\ user = User("pending_verification", FALSE, NoToken)
    /\ user_result = [op |-> "none", token |-> NoToken, value |-> ""]

\* No launch_browser_async coroutine has been created.
InitTasksIdle ==
    tasks = [t \in TaskIds |-> IdleTask]

InitExt ==
    /\ InitCmIdle
    /\ InitGlobalNone
    /\ InitLoggingFresh
    /\ InitSettingsIdle
    /\ InitInventoryDefault
    /\ InitUserDefault
    /\ InitTasksIdle

\* The circuit breaker called directly.
Init ==
    /\ InitBreaker
    /\ InitRetryIdle
    /\ InitDelayIdle
    /\ InitManager(5)
    /\ InitExt
    /\ r_config = RetryConfig
    /\ r_use_cb = FALSE

NextCB == CbCall \/ CbFuncReturn \/ Tick

SpecCB == Init /\ [][NextCB]_vars

\* A function decorated with retry_with_backoff: any of the configurations,
\* max_attempts replaced by any value within the bound, without a circuit
\* breaker or with one whose thresholds are within the bounds and whose
\* recovery_timeout is one second.
InitRetry ==
    /\ r_use_cb \in BOOLEAN
    /\ IF r_use_cb
       THEN \E ft \in 1..MaxFailureThreshold, st \in 1..MaxSuccessThreshold :
               cb = CircuitBreaker(ft, 1, st)
       ELSE cb = CircuitBreaker(1, 1, 1)
    /\ cb_pc = "idle"
    /\ cb_event = "none"
    /\ now = 0
    /\ consec_failures = 0
    /\ half_open_successes = 0
    /\ InitRetryIdle
    /\ \E c \in RetryConfigs, n \in 0..MaxAttempts :
         r_config = [c EXCEPT !.max_attempts = n]
    /\ InitDelayIdle
    /\ InitManager(5)
    /\ InitExt

NextRetry == RetryCall \/ RetryAttempt \/ RetryFuncReturns \/ RetryFuncRaises \/ Tick

SpecRetry == InitRetry /\ [][NextRetry]_vars

\* calculate_delay on any of the delay configurations, any attempt number
\* within the bound and any draw.
InitDelay ==
    /\ cb = CircuitBreaker(1, 1, 1)
    /\ cb_pc = "idle"
    /\ cb_event = "none"
    /\ now = 0
    /\ consec_failures = 0
    /\ half_open_successes = 0
    /\ InitRetryIdle
    /\ r_config = RetryConfig
    /\ r_use_cb = FALSE
    /\ d_config \in DelayConfigs
    /\ d_attempt \in 0..MaxDelayAttempt
    /\ d_rnd \in RandomDraws
    /\ d_pc = "ready"
    /\ d_delay = 0
    /\ InitManager(5)
    /\ InitExt

NextDelay == CalculateDelay \/ DelayBefore

SpecDelay == InitDelay /\ [][NextDelay]_vars

\* One BrowserManager whose settings allow 1..MaxBrowsers concurrent
\* browsers (the field admits 1..20).
InitBM ==
    /\ cb = CircuitBreaker(1, 1, 1)
    /\ cb_pc = "idle"
    /\ cb_event = "none"
    /\ now = 0
    /\ consec_failures = 0
    /\ half_open_successes = 0
    /\ InitRetryIdle
    /\ r_config = RetryConfig
    /\ r_use_cb = FALSE
    /\ InitDelayIdle
    /\ \E n \in 1..MaxBrowsers : InitManager(n)
    /\ InitExt

NextBM == LaunchBrowser \/ CloseSession \/ BmTick

SpecBM == InitBM /\ [][NextBM]_vars

\* The manager used through its context manager: sessions are launched by
\* direct calls before the block is entered, contexts and pages are created
\* inside the block, and the block is entered and left once, all within the
\* hour (no session grows idle).
NextCM ==
    \/ CmEnter
    \/ CmExit
    \/ (cm_pc = "block" /\ CreateContext)
    \/ (cm_pc = "block" /\ CreatePage)
    \/ (cm_pc = "idle" /\ LaunchBrowser)

SpecCM == InitBM /\ [][NextCM]_vars

\* The global manager: nothing exists before the first call of
\* get_browser_manager; the manager it returns is then used.
InitGlobal ==
    /\ cb = CircuitBreaker(1, 1, 1)
    /\ cb_pc = "idle"
    /\ cb_event = "none"
    /\ now = 0
    /\ consec_failures = 0
    /\ half_open_successes = 0
    /\ InitRetryIdle
    /\ r_config = RetryConfig
    /\ r_use_cb = FALSE
    /\ InitDelayIdle
    /\ InitManager(0)
    /\ InitExt

NextGlobal ==
    \/ GetBrowserManager
    \/ (global_manager # "None" /\ LaunchBrowser)
    \/ (global_manager # "None" /\ CloseSession)

SpecGlobal == InitGlobal /\ [][NextGlobal]_vars

\* A process in which nothing has been called yet: no manager in use, the
\* logging system not configured, no Settings constructed.
InitLogging ==
    /\ cb = CircuitBreaker(1, 1, 1)
    /\ cb_pc = "idle"
    /\ cb_event = "none"
    /\ now = 0
    /\ consec_failures = 0
    /\ half_open_successes = 0
    /\ InitRetryIdle
    /\ r_config = RetryConfig
    /\ r_use_cb = FALSE
    /\ InitDelayIdle
    /\ InitManager(5)
    /\ InitExt

\* setup_logging and logging calls in any order.
NextLogging == SetupLogging \/ LogMessage

SpecLogging == InitLogging /\ [][NextLogging]_vars

\* Settings objects are constructed, one after the other.
NextSettings == ConstructSettings

SpecSettings == InitLogging /\ [][NextSettings]_vars

\* An Inventory the constructor accepts (0 <= reserved_quantity <= quantity),
\* then any sequence of calls of its three stock methods.
InitInventory ==
    /\ cb = CircuitBreaker(1, 1, 1)
    /\ cb_pc = "idle"
    /\ cb_event = "none"
    /\ now = 0
    /\ consec_failures = 0
    /\ half_open_successes = 0
    /\ InitRetryIdle
    /\ r_config = RetryConfig
    /\ r_use_cb = FALSE
    /\ InitDelayIdle
    /\ InitManager(5)
    /\ InitCmIdle
    /\ InitGlobalNone
    /\ InitLoggingFresh
    /\ InitSettingsIdle
    /\ \E q \in 0..MaxStock, r \in 0..MaxStock :
         /\ ~inventory_levels_invalid(Inventory(q, r))
         /\ inventory = Inventory(q, r)
    /\ inv_result = [op |-> "none", quantity |-> 0, value |-> ""]
    /\ InitUserDefault
    /\ InitTasksIdle

NextInventory == ReserveStock \/ ReleaseStock \/ FulfillStock

SpecInventory == InitInventory /\ [][NextInventory]_vars

\* Launches and closes through the manager, none of whose close() calls
\* raises, while hours pass.
NextLeak ==
    LaunchBrowserNoFailure \/ CloseSessionNoFailure \/ CleanupAllSessions \/ BmTick

SpecLeak == InitBM /\ [][NextLeak]_vars

\* Coroutines that call launch_browser_async on one manager while hours
\* pass.
NextAsync == LaunchBrowserAsync \/ AsyncCloseResume \/ AsyncLaunchResume \/ BmTick

SpecAsync == InitBM /\ [][NextAsync]_vars

\* A User the constructor accepts, then any sequence of calls of activate,
\* suspend and verify_email.
InitUser ==
    /\ cb = CircuitBreaker(1, 1, 1)
    /\ cb_pc = "idle"
    /\ cb_event = "none"
    /\ now = 0
    /\ consec_failures = 0
    /\ half_open_successes = 0
    /\ InitRetryIdle
    /\ r_config = RetryConfig
    /\ r_use_cb = FALSE
    /\ InitDelayIdle
    /\ InitManager(5)
    /\ InitCmIdle
    /\ InitGlobalNone
    /\ InitLoggingFresh
    /\ InitSettingsIdle
    /\ InitInventoryDefault
    /\ \E st \in UserStatuses, ev \in BOOLEAN, token \in Tokens \cup {NoToken} :
         /\ ~user_state_invalid(User(st, ev, token))
         /\ user = User(st, ev, token)
    /\ user_result = [op |-> "none", token |-> NoToken, value |-> ""]
    /\ InitTasksIdle

NextUser == Activate \/ Suspend \/ VerifyEmail

SpecUser == InitUser /\ [][NextUser]_vars

\* Sessions with contexts and pages, launched and closed by direct calls,
\* all within the hour; one launch fewer than the bound allows is followed.
NextClose ==
    \/ (launched + 1 < MaxLaunches /\ LaunchBrowser)
    \/ CreateContext
    \/ CreatePage
    \/ CloseSession

SpecClose == InitBM /\ [][NextClose]_vars

(***************************************************************************)
(* Properties of the circuit breaker (checked under SpecCB).               *)
(* A "failed call" is a call whose wrapped function raised an Exception,   *)
(* the only failures CircuitBreaker.call's handler sees.                   *)
(***************************************************************************)

\* Seconds since the last recorded failure.
SinceLastFailure == now - cb.last_failure_time

\* C1: while the breaker is OPEN and fewer than recovery_timeout seconds have
\* passed since its last recorded failure, every call() raises without
\* invoking the wrapped function (and leaves the breaker as it was).
C1_OpenRejectsDuringCooldown ==
    [][(/\ CbCall
        /\ cb.state = "OPEN"
        /\ cb.last_failure_time # None
        /\ SinceLastFailure < cb.recovery_timeout)
       => (cb_event' = "rejected" /\ cb_pc' = "idle" /\ cb' = cb)]_vars

C1_Witness ==
    /\ cb.state = "OPEN"
    /\ cb_event = "rejected"
    /\ cb.last_failure_time # None
    /\ SinceLastFailure < cb.recovery_timeout

\* C2: a CLOSED breaker has seen fewer than failure_threshold failed calls
\* since the last successful one, and it moves to OPEN exactly on the failed
\* call that brings that number to failure_threshold.
C2_OpensExactlyAtThreshold ==
    /\ [](cb.state = "CLOSED" => consec_failures < cb.failure_threshold)
    /\ [][cb.state = "CLOSED"
          => /\ cb'.state \in {"CLOSED", "OPEN"}
             /\ (cb'.state = "OPEN")
                  <=> (/\ CbFuncReturn
                       /\ cb_event' = "failure"
                       /\ consec_failures' = cb.failure_threshold)]_vars

C2_Witness ==
    /\ cb.state = "OPEN"
    /\ cb_event = "failure"
    /\ cb.failure_threshold = 2
    /\ consec_failures = 2

\* C3: once recovery_timeout seconds have elapsed since the last recorded
\* failure, a call() on an OPEN breaker moves it to HALF_OPEN and invokes the
\* wrapped function.
C3_HalfOpenAfterCooldown ==
    [][(/\ CbCall
        /\ cb.state = "OPEN"
        /\ cb.last_failure_time # None
        /\ SinceLastFailure >= cb.recovery_timeout)
       => (cb'.state = "HALF_OPEN" /\ cb_pc' = "in_func" /\ cb_event' = "invoked")]_vars

C3_Witness ==
    /\ cb.state = "HALF_OPEN"
    /\ cb_event = "invoked"
    /\ cb_pc = "in_func"
    /\ cb.last_failure_time # None
    /\ SinceLastFailure >= cb.recovery_timeout

\* C4: in HALF_OPEN a failed call moves the breaker back to OPEN, and the
\* breaker becomes CLOSED only from HALF_OPEN, on a successful call, when
\* success_threshold calls have succeeded since HALF_OPEN was entered.
C4_HalfOpenTransitions ==
    [][/\ (cb.state = "HALF_OPEN" /\ CbFuncReturn /\ cb_event' = "failure")
          => cb'.state = "OPEN"
       /\ (cb.state # "CLOSED" /\ cb'.state = "CLOSED")
          => /\ cb.state = "HALF_OPEN"
             /\ CbFuncReturn
             /\ cb_event' = "success"
             /\ half_open_successes' >= cb.success_threshold]_vars

C4_Witness ==
    /\ cb.state = "CLOSED"
    /\ cb_event = "success"
    /\ cb.success_threshold = 2
    /\ half_open_successes = 2

(***************************************************************************)
(* Properties of a call through retry_with_backoff (checked under          *)
(* SpecRetry).                                                             *)
(***************************************************************************)

\* C5: a call through retry_with_backoff invokes the wrapped function at most
\* max_attempts times, the initial attempt included.
C5_AtMostMaxAttempts ==
    /\ r_invocations <= r_config.max_attempts
    /\ r_stats.total_attempts <= r_config.max_attempts

C5_Witness ==
    /\ r_pc = "raised"
    /\ r_config.max_attempts = 3
    /\ r_invocations = 3

\* The attempts recorded before the latest one.
EarlierAttempts == 1..(Len(r_stats.attempts) - 1)

\* C6: the call returns the value of the first attempt that succeeds, a
\* successful attempt is the last attempt of the call, and a call that made
\* attempts of which none succeeded raises the exception of its last attempt.
C6_FirstSuccessOrLastException ==
    /\ \A i \in EarlierAttempts : r_stats.attempts[i].exception # NoException
    /\ r_stats.successful_attempts > 0 => r_pc = "returned"
    /\ r_pc = "returned"
         => /\ r_last.kind = "ok"
            /\ r_result = Returned(r_last.value)
            /\ r_stats.successful_attempts = 1
    /\ (r_pc = "raised" /\ r_last.kind # "none")
         => /\ r_last.kind # "ok"
            /\ r_result = Raised(r_last.exc)

C6_Witness ==
    /\ r_pc = "raised"
    /\ r_stats.failed_attempts = 2
    /\ r_stats.attempts[1].exception # r_stats.attempts[2].exception
    /\ r_result = Raised(r_stats.attempts[2].exception)

\* The latest attempt raised an AutomationException whose severity or
\* category the configuration does not allow to retry.
IneligibleAutomationException ==
    /\ r_last.kind = "exception"
    /\ isinstance(r_last.exc, "AutomationException")
    /\ \/ r_last.exc.severity \notin r_config.retry_on_severity
       \/ r_last.exc.category \notin r_config.retry_on_categories

\* C7: an AutomationException raised by an attempt is retried only if its
\* severity is in retry_on_severity and its category in retry_on_categories;
\* otherwise the loop stops after that attempt and the call raises it.
C7_AutomationExceptionEligibility ==
    IneligibleAutomationException
      => /\ r_pc = "raised"
         /\ r_result = Raised(r_last.exc)
         /\ r_stats.total_attempts = r_attempt

C7_Witness ==
    /\ IneligibleAutomationException
    /\ r_last.exc.severity \in r_config.retry_on_severity
    /\ r_attempt < r_config.max_attempts
    /\ r_pc = "raised"

\* The latest attempt raised an instance of a class listed in
\* non_retryable_exceptions.
NonRetryableRaised ==
    /\ r_last.kind \in {"exception", "rejected", "base_exception"}
    /\ \E exc_type \in r_config.non_retryable_exceptions : isinstance(r_last.exc, exc_type)

\* C8: an exception whose type is listed in non_retryable_exceptions is never
\* retried, even when its type is also listed in retryable_exceptions and
\* attempts remain: the call raises it after that attempt.
C8_NonRetryableNeverRetried ==
    NonRetryableRaised => (r_pc = "raised" /\ r_result = Raised(r_last.exc))

C8_Witness ==
    /\ NonRetryableRaised
    /\ r_last.exc.type \in r_config.retryable_exceptions
    /\ r_attempt < r_config.max_attempts
    /\ r_pc = "raised"

(***************************************************************************)
(* Properties of calculate_delay (checked under SpecDelay).                *)
(***************************************************************************)

\* C9: for every retry strategy and every attempt number, the delay returned
\* by calculate_delay never exceeds max_delay.
C9_DelayCapped == d_pc = "done" => d_delay <= d_config.max_delay

C9_Witness ==
    /\ d_pc = "done"
    /\ d_attempt >= 2
    /\ uncapped_delay(d_attempt, d_config, d_rnd) > d_config.max_delay
    /\ d_delay = d_config.max_delay

(***************************************************************************)
(* Properties of the BrowserManager (checked under SpecBM).                *)
(***************************************************************************)

\* C10: after any sequence of launch_browser and close_session calls on one
\* BrowserManager, the number of tracked sessions never exceeds
\* settings.browser.max_concurrent_browsers.
C10_SessionsWithinLimit ==
    Cardinality(DOMAIN sessions) <= settings.max_concurrent_browsers

C10_Witness ==
    /\ Cardinality(DOMAIN sessions) = settings.max_concurrent_browsers
    /\ settings.max_concurrent_browsers = 2
    /\ bm_result.op = "launch_browser"
    /\ bm_result.why = "limit_reached"

(***************************************************************************)
(* Properties of the context manager browser_session (checked under        *)
(* SpecCM).                                                                *)
(***************************************************************************)

\* C11: a session opened by the context manager browser_session is tracked
\* while its block runs, get_session_stats reporting total_sessions = 1 when
\* no other session is open, and its id is no longer tracked when the block
\* has been left, normally or by an exception.
C11_TrackedExactlyInBlock ==
    [][/\ cm_pc' = "block" =>
            /\ cm_session' \in DOMAIN sessions'
            /\ DOMAIN sessions' = {cm_session'} =>
                 /\ cm_stats'.total_sessions = 1
                 /\ get_session_stats(sessions',
                        settings'.max_concurrent_browsers).total_sessions = 1
       /\ (cm_pc = "block" /\ cm_pc' = "exited") =>
            cm_session' \notin DOMAIN sessions']_vars

\* The block was entered with no other session open and was left by an
\* exception, the browser's close() raising in the finally clause.
C11_Witness ==
    /\ cm_pc = "exited"
    /\ cm_exit = "exception"
    /\ cm_stats.total_sessions = 1
    /\ bm_result.op = "browser_session_exit"
    /\ bm_result.value = "False"
    /\ cm_session \notin DOMAIN sessions

(***************************************************************************)
(* Properties of close_session (checked under SpecClose).                  *)
(***************************************************************************)

\* C12: when close_session(id) returns for a tracked id the id is no longer
\* tracked, whether or not the close() of a page, of a context or of the
\* browser raised, and it returns True only when the browser was closed
\* without error; for an unknown id it returns False and changes neither the
\* table nor the browsers.  (Every step records the call it makes in
\* bm_result: a step that leaves op = "close_session" is a call of
\* close_session with the id recorded.)
C12_CloseSessionUntracks ==
    [][bm_result'.op = "close_session" =>
         LET sid == bm_result'.session_id IN
            IF sid \in DOMAIN sessions
            THEN /\ sid \notin DOMAIN sessions'
                 /\ DOMAIN sessions' = DOMAIN sessions \ {sid}
                 /\ bm_result'.value = "True" =>
                      /\ sessions[sid].browser \in live_browsers
                      /\ sessions[sid].browser \notin live_browsers'
            ELSE /\ bm_result'.value = "False"
                 /\ sessions' = sessions
                 /\ live_browsers' = live_browsers]_vars

\* close_session returned True for a session one of whose pages or contexts
\* raised in close(), a second session staying tracked.
C12_Witness ==
    /\ bm_result.op = "close_session"
    /\ bm_result.value = "True"
    /\ bm_result.why = "child_errors"
    /\ bm_result.session_id \notin DOMAIN sessions
    /\ DOMAIN sessions # {}

(***************************************************************************)
(* Property of get_browser_manager (checked under SpecGlobal).             *)
(***************************************************************************)

\* C13: get_browser_manager(settings) returns a manager configured from the
\* settings passed to that call, whenever in the life of the process the call
\* is made.
C13_ManagerFromPassedSettings ==
    gbm_call.settings # NoSettings => gbm_call.returned = gbm_call.settings

(***************************************************************************)
(* Property of setup_logging (checked under SpecLogging).                  *)
(***************************************************************************)

\* C14: once setup_logging has been called with enable_file=True and a
\* log_file_path, a message logged afterwards is written to that file,
\* whatever logging calls came before the call.  (Stated for calls that ask
\* for log_level="DEBUG", the level that lets every message through.)
C14_MessagesReachRequestedFile ==
    [][(/\ LogMessage
        /\ log_call.enable_file
        /\ log_call.log_file_path # NoPath
        /\ log_call.log_level = "DEBUG")
       => /\ log_call.log_file_path \in DOMAIN log_files
          /\ log_files'[log_call.log_file_path]
                = log_files[log_call.log_file_path] + 1]_vars

(***************************************************************************)
(* Property of the Settings constructor (checked under SpecSettings).      *)
(***************************************************************************)

\* C15: constructing Settings for the production environment with debug
\* true and a browser that is not headless is rejected with a ValueError.
C15_ProductionDebugRejected ==
    (/\ st_result.done
     /\ st_input.environment = "production"
     /\ st_input.debug
     /\ ~st_input.headless)
    => (st_result.raised /\ st_result.exc = "ValueError")

(***************************************************************************)
(* Property of Inventory (checked under SpecInventory).                    *)
(***************************************************************************)

\* C16: after any sequence of reserve_stock, release_stock and fulfill_stock
\* calls on an Inventory, 0 <= reserved_quantity <= quantity.
C16_ReservedWithinQuantity ==
    /\ 0 <= inventory.reserved_quantity
    /\ inventory.reserved_quantity <= inventory.quantity

(***************************************************************************)
(* Property of User (checked under SpecUser).                              *)
(***************************************************************************)

\* C17: a User whose status is ACTIVE has email_verified true, after any
\* sequence of verify_email, activate and suspend calls.
C17_ActiveImpliesVerified ==
    user.status = "active" => user.email_verified

\* verify_email returned True and activated a user suspended or pending
\* before.
C17_Witness ==
    /\ user_result.op = "verify_email"
    /\ user_result.value = "True"
    /\ user.status = "active"
    /\ user.email_verified

(***************************************************************************)
(* Property of launch_browser_async (checked under SpecAsync).             *)
(***************************************************************************)

\* C18: while several launch_browser_async calls on one manager are in
\* flight, the number of tracked sessions never exceeds
\* max_concurrent_browsers.
C18_AsyncLimitKept ==
    Cardinality(DOMAIN sessions) <= settings.max_concurrent_browsers

(***************************************************************************)
(* Property of the table of sessions (checked under SpecLeak, where the    *)
(* running browsers are those launched and not closed by the manager).     *)
(***************************************************************************)

\* C19: every browser launched through launch_browser and not yet closed
\* through the manager is the browser of a tracked session, also after a
\* launch with a session_id that is already in use.
C19_LaunchedBrowsersTracked ==
    \A b \in live_browsers : \E sid \in DOMAIN sessions : sessions[sid].browser = b

(***************************************************************************)
(* Property of the delay strategies (checked under SpecDelay; delays in    *)
(* milliseconds, multipliers in tenths).                                   *)
(***************************************************************************)

\* C20: for attempt n >= 2 the delay before the cap is base_delay under
\* FIXED, base_delay * (n - 1) under LINEAR and
\* base_delay * backoff_multiplier^(n - 2) under EXPONENTIAL, which doubles
\* with each attempt for the multiplier 2; the delay returned is the smaller
\* of that and max_delay, and nothing is waited before the first attempt.
C20_DelayFormulas ==
    d_pc # "ready" =>
        LET n == d_attempt
            c == d_config
        IN /\ n <= 1 => d_delay = 0
           /\ n >= 2 /\ c.strategy = "fixed" =>
                d_delay = Min(c.base_delay, c.max_delay)
           /\ n >= 2 /\ c.strategy = "linear" =>
                d_delay = Min(c.base_delay * (n - 1), c.max_delay)
           /\ n >= 2 /\ c.strategy = "exponential" =>
                d_delay = Min((c.base_delay * Pow(c.backoff_multiplier, n - 2))
                                 \div Pow(10, n - 2), c.max_delay)
           /\ n >= 2 /\ c.strategy = "exponential" /\ c.backoff_multiplier = 20 =>
                d_delay = Min(c.base_delay * Pow(2, n - 2), c.max_delay)

\* The retry loop waits 2000 ms before the fourth attempt of an exponential
\* configuration with base 500 ms and multiplier 2, below the cap.
C20_Witness ==
    /\ d_pc = "waited"
    /\ d_config.strategy = "exponential"
    /\ d_config.backoff_multiplier = 20
    /\ d_config.base_delay = 500
    /\ d_attempt = 4
    /\ d_delay = 2000
    /\ d_delay < d_config.max_delay

====
